---- MODULE Spec2Model ----
(***************************************************************************)
(* The query-to-recommendation pipeline of the SHL recommendation API:     *)
(* the lazily loaded embedding model of app/recommender.py (get_model,     *)
(* release_model), the vector search chroma_search, the lru_cache around   *)
(* it (cached_search) and the /recommend, /warmup and /health handlers of  *)
(* app/main.py.                                                            *)
(*                                                                         *)
(* A context is one invocation of a handler.  Under Spec and CacheSpec the *)
(* handlers run one at a time (they are async functions without an await,  *)
(* so the event loop runs each to completion); under ConcSpec two contexts *)
(* interleave at every access to the shared module state.                  *)
(***************************************************************************)
EXTENDS Integers, Sequences, FiniteSets, TLC

\* ------------------------------------------------------------------ bounds

\* Cap on the number of model instances constructed in one run.
MaxLoads == 2

\* The invocation contexts; the event loop of Spec and CacheSpec uses 1.
Ctx == {1, 2}

\* ------------------------------------------------------- program constants

\* _model = None: no embedder is loaded.
None == 0

\* lru_cache(maxsize=5)
maxsize == 5

\* The text get_query_from_url returns when the resolver fails.
Fallback == "Entry-level role, basic technical and cognitive skills, under 30 minutes"

\* What the resolver answers for a URL when it succeeds (response.text.strip()).
Resolved(url) == "analyst role, sql"

\* request.query.startswith("http")
StartsWithHttp(q) == Len(q) >= 4 /\ SubSeq(q, 1, 4) = "http"

\* --------------------------------------------------- external collaborators

\* The catalog: item ids, each stored with a vector and a metadata dict.
Catalog == {1, 2, 3, 4}

\* The metadata stored with an item; a result list names each dict by its item.
Metadata(item) ==
    [name |-> <<"assessment", item>>,
     url |-> <<"https://www.shl.com/", item>>,
     description |-> <<"description", item>>,
     duration |-> IF item = 4 THEN "Not specified" ELSE "30 minutes",
     languages |-> "English",
     job_level |-> "Entry-Level",
     remote_testing |-> IF item % 2 = 0 THEN "Yes" ELSE "No",
     test_type |-> "K"] @@ ("adaptive/irt_support" :> "No")

\* model.encode([query_text])[0]: the query's vector.
Embed(text) ==
    CASE text = "" -> 0
      [] text = "java" -> 1
      [] text = "sql" -> 3
      [] text = "analyst role, sql" -> 4
      [] OTHER -> 2

Abs(n) == IF n < 0 THEN 0 - n ELSE n

\* The distance the collection ranks by.
Dist(v, item) == Abs(2 * v - 2 * item + 1)

RECURSIVE Ranked(_, _, _)
\* The k nearest of items to v, nearest first.
Ranked(v, items, k) ==
    IF k = 0 \/ items = {} THEN <<>>
    ELSE LET best == CHOOSE a \in items : \A b \in items : Dist(v, a) <= Dist(v, b)
         IN <<best>> \o Ranked(v, items \ {best}, k - 1)

\* collection.query(query_embeddings=[query_emb], n_results=top_k)["metadatas"][0]
collection_query(query_emb, top_k) == Ranked(query_emb, Catalog, top_k)

\* ------------------------------------------------------------------- state

VARIABLES
    _model,           \* recommender._model: None or the loaded instance (its number)
    loads,            \* how many SentenceTransformer instances were constructed
    store,            \* "none", "client" (_client set), "collection" (_collection set)
    model_warmed_up,  \* main.model_warmed_up
    cache,            \* cached_search's entries, least recently used first
    pc,               \* each context's position
    loc,              \* each context's request, locals and response
    insOrder,         \* history: the resident keys, least recently inserted first
    useOrder,         \* history: the resident keys, least recently used first
    calls,            \* history: the last three get_model/release_model calls
    last              \* history: the cached_search call that finished last

vars == <<_model, loads, store, model_warmed_up, cache, pc, loc, insOrder, useOrder,
          calls, last>>

\* The store of this request evicted nothing.
NoEv == [keys |-> {}, before |-> {}, lru |-> <<>>, ins |-> <<>>]

\* No cached_search call has finished yet.
NoCall == [key |-> <<"", 0>>, ok |-> FALSE, body |-> <<>>]

\* The locals of a handler that has not started: request is request.query as
\* it was posted, resolver what became of the get_query_from_url call; cause is
\* the exception a step raised and at the step, err the exception in flight;
\* m0, c0 and prev are the model, the cache and the last call at the call.
NoLoc ==
    [kind |-> "", request |-> "", resolver |-> "none", query |-> "", top_k |-> 0,
     model |-> None, pre |-> 0, was |-> None, cause |-> "", at |-> "", err |-> "",
     status |-> 0,
     body |-> <<>>, called |-> FALSE, searched |-> FALSE, hit |-> FALSE,
     m0 |-> None, c0 |-> <<>>, prev |-> NoCall, ev |-> NoEv]

Init ==
    /\ _model = None
    /\ loads = 0
    /\ store = "none"
    /\ model_warmed_up = FALSE
    /\ cache = <<>>
    /\ pc = [i \in Ctx |-> "idle"]
    /\ loc = [i \in Ctx |-> NoLoc]
    /\ insOrder = <<>>
    /\ useOrder = <<>>
    /\ calls = <<>>
    /\ last = NoCall

\* ------------------------------------------------------------------ helpers

Last3(s) == IF Len(s) > 3 THEN SubSeq(s, Len(s) - 2, Len(s)) ELSE s

Record(e) == calls' = Last3(Append(calls, e))

Keys(c) == {c[n].key : n \in 1..Len(c)}

Without(s, k) == SelectSeq(s, LAMBDA e : e # k)

WithoutKey(c, k) == SelectSeq(c, LAMBDA e : e.key # k)

Lookup(c, k) == (CHOOSE n \in 1..Len(c) : c[n].key = k)

Key(l) == <<l.query, l.top_k>>

Ready(i) == pc[i] \in {"idle", "done"}

\* The response of a finished handler; its locals are gone.
Done(i, l, status, body) ==
    /\ pc' = [pc EXCEPT ![i] = "done"]
    /\ loc' = [loc EXCEPT ![i] = [l EXCEPT !.status = status, !.body = body,
                                            !.model = None, !.pre = 0, !.was = None,
                                            !.c0 = <<>>]]

\* The step at of cached_search raises cause, which leaves cached_search as err
\* (history: the call failed).
RaiseAt(i, at, cause, err) ==
    /\ pc' = [pc EXCEPT ![i] = "except"]
    /\ loc' = [loc EXCEPT ![i].cause = cause, ![i].at = at, ![i].err = err]
    /\ last' = [key |-> Key(loc[i]), ok |-> FALSE, body |-> <<>>]

\* An exception no frame between its step and the handler catches.
Raise(i, err) == RaiseAt(i, pc[i], err, err)

\* ---------------------------------------- the result cache (functools.lru_cache)

\* Mutant: a hit leaves the order alone (first in, first out).
lru_hit_Fifo(c, k) == c

\* A hit: the entry becomes the most recently used.
lru_hit(c, k) == Append(WithoutKey(c, k), c[Lookup(c, k)])

\* Mutant: the result is returned and never stored.
lru_store_Drop(c, k, v) == c

\* Mutant: a full cache grows instead of evicting.
lru_store_NoEvict(c, k, v) ==
    IF k \in Keys(c) THEN c ELSE Append(c, [key |-> k, val |-> v])

\* The store after a miss: a key some other call stored meanwhile is left as it
\* is; a full cache drops its least recently used entry.
lru_store(c, k, v) ==
    IF k \in Keys(c) THEN c
    ELSE IF Len(c) >= maxsize THEN Append(Tail(c), [key |-> k, val |-> v])
    ELSE Append(c, [key |-> k, val |-> v])

\* History: an order of the resident keys after a store that turned the cache
\* c into c2: the dropped keys leave it, a new key k joins at its end.
hist_store(h, c, c2, k) ==
    LET kept == SelectSeq(h, LAMBDA e : e \in Keys(c2))
    IN IF k \in Keys(c2) \ Keys(c) THEN Append(kept, k) ELSE kept

\* History: what a store evicted, and which keys were then the least recently
\* used and the least recently inserted.
Eviction(c, c2) ==
    IF Keys(c) \ Keys(c2) = {} THEN NoEv
    ELSE [keys |-> Keys(c) \ Keys(c2), before |-> Keys(c), lru |-> Head(useOrder),
          ins |-> Head(insOrder)]

\* -------------------------------------------------------------- /recommend

\* item.get(field, "")
Get(item, field) ==
    IF field \in DOMAIN Metadata(item) THEN Metadata(item)[field] ELSE ""

\* Mutant: the response list is built back to front.
Format_Reversed(results) ==
    [n \in 1..Len(results) |->
        [name |-> Get(results[Len(results) + 1 - n], "name"),
         url |-> Get(results[Len(results) + 1 - n], "url"),
         remote_testing |-> Get(results[Len(results) + 1 - n], "remote_testing"),
         adaptive_irt_support |-> Get(results[Len(results) + 1 - n], "adaptive/irt_support"),
         duration |-> Get(results[Len(results) + 1 - n], "duration"),
         test_type |-> Get(results[Len(results) + 1 - n], "test_type")]]

\* The handler's response list: one AssessmentResponse per result, in order.
Format(results) ==
    [n \in 1..Len(results) |->
        [name |-> Get(results[n], "name"),
         url |-> Get(results[n], "url"),
         remote_testing |-> Get(results[n], "remote_testing"),
         adaptive_irt_support |-> Get(results[n], "adaptive/irt_support"),
         duration |-> Get(results[n], "duration"),
         test_type |-> Get(results[n], "test_type")]]

\* cached_search(query_text, top_k) up to the lookup: a hit returns the stored
\* list to the handler, which formats and returns it; a miss calls chroma_search.
cached_search(i, l) ==
    IF Key(l) \in Keys(cache)
    THEN LET val == cache[Lookup(cache, Key(l))].val
         IN /\ cache' = lru_hit(cache, Key(l))
            /\ useOrder' = Append(Without(useOrder, Key(l)), Key(l))
            /\ last' = [key |-> Key(l), ok |-> TRUE, body |-> val]
            /\ Done(i, [l EXCEPT !.hit = TRUE], 200, Format(val))
    ELSE /\ pc' = [pc EXCEPT ![i] = "get_model"]
         /\ loc' = [loc EXCEPT ![i] = [l EXCEPT !.searched = TRUE]]
         /\ UNCHANGED <<cache, useOrder, last>>

\* The handler up to the search: the query is taken as it is, or resolved from
\* the URL; late: the time budget is already used up (HTTPException 503, raised
\* inside the try block).
recommend_begin(i, req, text, k, late) ==
    /\ Ready(i)
    /\ LET l == [NoLoc EXCEPT !.kind = "recommend", !.request = req.query,
                              !.resolver = req.resolver, !.query = text,
                              !.top_k = k]
       IN IF late
          THEN /\ pc' = [pc EXCEPT ![i] = "except"]
               /\ loc' = [loc EXCEPT ![i] = [l EXCEPT !.err = "HTTPException503"]]
               /\ UNCHANGED <<cache, useOrder, last>>
          ELSE cached_search(i, [l EXCEPT !.called = TRUE, !.m0 = _model,
                                          !.c0 = cache, !.prev = last])
    /\ UNCHANGED <<_model, loads, store, model_warmed_up, insOrder, calls>>

\* Mutant: every query is sent to the resolver, text or not.
recommend_Text_Resolve(i, Q, K, L) ==
    \E q \in Q, k \in K, late \in L :
        /\ ~StartsWithHttp(q)
        /\ recommend_begin(i, [query |-> q, resolver |-> "ok"], Resolved(q), k, late)

\* Mutant: the request model refuses an empty query (422 before the handler).
recommend_Text_MinLength(i, Q, K, L) ==
    \E q \in Q, k \in K, late \in L :
        /\ ~StartsWithHttp(q)
        /\ IF q = ""
           THEN /\ Ready(i)
                /\ Done(i, [NoLoc EXCEPT !.kind = "recommend", !.request = q,
                                         !.top_k = k], 422, <<>>)
                /\ UNCHANGED <<_model, loads, store, model_warmed_up, cache,
                               insOrder, useOrder, calls, last>>
           ELSE recommend_begin(i, [query |-> q, resolver |-> "none"], q, k, late)

\* else: query_text = request.query
recommend_Text(i, Q, K, L) ==
    \E q \in Q, k \in K, late \in L :
        /\ ~StartsWithHttp(q)
        /\ recommend_begin(i, [query |-> q, resolver |-> "none"], q, k, late)

\* prompt = get_query_from_url(request.query): the resolver answers.
recommend_Resolved(i, Q, K, L) ==
    \E q \in Q, k \in K, late \in L :
        /\ StartsWithHttp(q)
        /\ recommend_begin(i, [query |-> q, resolver |-> "ok"], Resolved(q), k, late)

\* Mutant: the resolver's exception leaves get_query_from_url.
recommend_Fallback_Raises(i, Q, K, L) ==
    \E q \in Q, k \in K, late \in L :
        /\ StartsWithHttp(q)
        /\ Ready(i)
        /\ pc' = [pc EXCEPT ![i] = "except"]
        /\ loc' = [loc EXCEPT ![i] = [NoLoc EXCEPT !.kind = "recommend",
                                                    !.request = q,
                                                    !.resolver = "failed",
                                                    !.top_k = k,
                                                    !.err = "ResolveError"]]
        /\ UNCHANGED <<_model, loads, store, model_warmed_up, cache, insOrder,
                       useOrder, calls, last>>

\* get_query_from_url's except branch: the resolver fails, the fallback text
\* is returned.
recommend_Fallback(i, Q, K, L) ==
    \E q \in Q, k \in K, late \in L :
        /\ StartsWithHttp(q)
        /\ recommend_begin(i, [query |-> q, resolver |-> "failed"], Fallback, k, late)

\* except Exception: raise HTTPException(status_code=500, ...)
recommend_Except(i) ==
    /\ pc[i] = "except"
    /\ Done(i, loc[i], 500, <<>>)
    /\ UNCHANGED <<_model, loads, store, model_warmed_up, cache, insOrder, useOrder, calls, last>>

\* ------------------------------------------------- the embedder (get_model)

\* An exception raised in context i: to the handler's except block.
Throw(i, err) ==
    IF loc[i].kind = "warmup"
    THEN /\ pc' = [pc EXCEPT ![i] = "warmup_except"]
         /\ loc' = [loc EXCEPT ![i].cause = err, ![i].at = pc[i], ![i].err = err]
         /\ UNCHANGED last
    ELSE Raise(i, err)

\* Mutant: the model is constructed whether or not one is loaded.
get_model_Check_Reload(i) ==
    /\ pc[i] = "get_model"
    /\ pc' = [pc EXCEPT ![i] = "load_model"]
    /\ loc' = [loc EXCEPT ![i].pre = loads, ![i].was = _model]
    /\ UNCHANGED <<_model, loads, store, model_warmed_up, cache, insOrder, useOrder, calls, last>>

\* if _model is None:
get_model_Check(i) ==
    /\ pc[i] = "get_model"
    /\ pc' = [pc EXCEPT ![i] = IF _model = None THEN "load_model" ELSE "get_model_return"]
    /\ loc' = [loc EXCEPT ![i].pre = loads, ![i].was = _model]
    /\ UNCHANGED <<_model, loads, store, model_warmed_up, cache, insOrder, useOrder, calls, last>>

\* Mutant: without the global declaration the instance is bound to a local.
get_model_Load_Local(i) ==
    /\ pc[i] = "load_model"
    /\ loads < MaxLoads
    /\ loads' = loads + 1
    /\ pc' = [pc EXCEPT ![i] = "get_model_return"]
    /\ UNCHANGED <<_model, store, model_warmed_up, cache, loc, insOrder, useOrder, calls, last>>

\* _model = SentenceTransformer("all-MiniLM-L6-v2")
get_model_Load(i) ==
    /\ pc[i] = "load_model"
    /\ loads < MaxLoads
    /\ loads' = loads + 1
    /\ _model' = loads + 1
    /\ pc' = [pc EXCEPT ![i] = "get_model_return"]
    /\ UNCHANGED <<store, model_warmed_up, cache, loc, insOrder, useOrder, calls, last>>

\* Mutant: the failed load leaves a half-built instance in the global.
get_model_LoadFail_Partial(i) ==
    /\ pc[i] = "load_model"
    /\ Throw(i, "LoadError")
    /\ _model' = loads + 1
    /\ Record([op |-> "acquire_failed", pre |-> loc[i].pre, post |-> loads,
               was |-> loc[i].was, now |-> loads + 1])
    /\ UNCHANGED <<loads, store, model_warmed_up, cache, insOrder, useOrder>>

\* The constructor raises: nothing is stored.
get_model_LoadFail(i) ==
    /\ pc[i] = "load_model"
    /\ Throw(i, "LoadError")
    /\ Record([op |-> "acquire_failed", pre |-> loc[i].pre, post |-> loads,
               was |-> loc[i].was, now |-> _model])
    /\ UNCHANGED <<_model, loads, store, model_warmed_up, cache, insOrder, useOrder>>

\* return _model
get_model_Return(i) ==
    /\ pc[i] = "get_model_return"
    /\ pc' = [pc EXCEPT ![i] = IF loc[i].kind = "warmup" THEN "warmup_encode"
                                ELSE "get_collection"]
    /\ loc' = [loc EXCEPT ![i].model = _model]
    /\ Record([op |-> "acquire", pre |-> loc[i].pre, post |-> loads,
               was |-> loc[i].was, now |-> _model])
    /\ UNCHANGED <<_model, loads, store, model_warmed_up, cache, insOrder, useOrder, last>>

\* Mutant: a bare toggle, which loads what was unloaded.
release_model_Toggle ==
    /\ _model' = IF _model = None THEN 1 ELSE None
    /\ Record([op |-> "release", pre |-> loads, post |-> loads,
               was |-> _model, now |-> IF _model = None THEN 1 ELSE None])

\* release_model(): the global is dropped.
release_model ==
    /\ _model' = None
    /\ Record([op |-> "release", pre |-> loads, post |-> loads,
               was |-> _model, now |-> None])

\* ------------------------------------------------------------ chroma_search

\* collection = get_collection(): the client and the collection are created
\* on first use and kept.
get_collection_Ok(i) ==
    /\ pc[i] = "get_collection"
    /\ store' = "collection"
    /\ pc' = [pc EXCEPT ![i] = "encode"]
    /\ UNCHANGED <<_model, loads, model_warmed_up, cache, loc, insOrder, useOrder, calls, last>>

\* chromadb.PersistentClient(path=CHROMA_PATH) raises.
get_client_Fail(i) ==
    /\ pc[i] = "get_collection"
    /\ store = "none"
    /\ RaiseAt(i, "get_client", "StoreError", "StoreError")
    /\ UNCHANGED <<_model, loads, store, model_warmed_up, cache, insOrder, useOrder, calls>>

\* client.get_collection raises: except Exception as e: raise RuntimeError(...).
get_collection_Fail(i) ==
    /\ pc[i] = "get_collection"
    /\ store # "collection"
    /\ store' = "client"
    /\ RaiseAt(i, "client.get_collection", "StoreError", "RuntimeError")
    /\ UNCHANGED <<_model, loads, model_warmed_up, cache, insOrder, useOrder, calls>>

\* query_emb = model.encode([query_text])[0].tolist(); None has no encode.
encode_Ok(i) ==
    /\ pc[i] = "encode"
    /\ IF loc[i].model = None
       THEN Raise(i, "AttributeError")
       ELSE /\ pc' = [pc EXCEPT ![i] = "query"]
            /\ UNCHANGED <<loc, last>>
    /\ UNCHANGED <<_model, loads, store, model_warmed_up, cache, insOrder, useOrder, calls>>

\* Mutant: a failed encode is tried again inside chroma_search.
encode_Fail_Retry(i) ==
    /\ pc[i] = "encode"
    /\ loc[i].cause = ""
    /\ loc' = [loc EXCEPT ![i].cause = "EmbedError", ![i].at = "encode"]
    /\ UNCHANGED <<_model, loads, store, model_warmed_up, cache, pc, insOrder,
                   useOrder, calls, last>>

\* model.encode raises.
encode_Fail(i) ==
    /\ pc[i] = "encode"
    /\ Raise(i, "EmbedError")
    /\ UNCHANGED <<_model, loads, store, model_warmed_up, cache, insOrder, useOrder, calls>>

\* results = collection.query(...); return results["metadatas"][0]: the list is
\* stored by cached_search, then formatted and returned by the handler.
query_Ok(i) ==
    /\ pc[i] = "query"
    /\ LET res == collection_query(Embed(loc[i].query), loc[i].top_k)
           new == lru_store(cache, Key(loc[i]), res)
       IN /\ cache' = new
          /\ insOrder' = hist_store(insOrder, cache, new, Key(loc[i]))
          /\ useOrder' = hist_store(useOrder, cache, new, Key(loc[i]))
          /\ last' = [key |-> Key(loc[i]), ok |-> TRUE, body |-> res]
          /\ Done(i, [loc[i] EXCEPT !.ev = Eviction(cache, new)], 200, Format(res))
    /\ UNCHANGED <<_model, loads, store, model_warmed_up, calls>>

\* Mutant: the failure is memoized: an empty result is stored for the key.
query_Fail_Cached(i) ==
    /\ pc[i] = "query"
    /\ Raise(i, "StoreError")
    /\ cache' = lru_store(cache, Key(loc[i]), <<>>)
    /\ insOrder' = hist_store(insOrder, cache, cache', Key(loc[i]))
    /\ useOrder' = hist_store(useOrder, cache, cache', Key(loc[i]))
    /\ UNCHANGED <<_model, loads, store, model_warmed_up, calls>>

\* collection.query raises.
query_Fail(i) ==
    /\ pc[i] = "query"
    /\ Raise(i, "StoreError")
    /\ UNCHANGED <<_model, loads, store, model_warmed_up, cache, insOrder, useOrder, calls>>

\* ------------------------------------------------------------------ /warmup

\* if model_warmed_up: return {"status": "Model already warmed up"}
warmup_Already(i) ==
    /\ Ready(i)
    /\ model_warmed_up
    /\ Done(i, [NoLoc EXCEPT !.kind = "warmup"], 200, <<"already">>)
    /\ UNCHANGED <<_model, loads, store, model_warmed_up, cache, insOrder, useOrder, calls, last>>

warmup_Begin(i) ==
    /\ Ready(i)
    /\ ~model_warmed_up
    /\ pc' = [pc EXCEPT ![i] = "get_model"]
    /\ loc' = [loc EXCEPT ![i] = [NoLoc EXCEPT !.kind = "warmup"]]
    /\ UNCHANGED <<_model, loads, store, model_warmed_up, cache, insOrder, useOrder, calls, last>>

\* _ = model.encode(["This is a warmup query"]); model_warmed_up = True
warmup_Encode(i) ==
    /\ pc[i] = "warmup_encode"
    /\ IF loc[i].model = None
       THEN /\ Throw(i, "AttributeError")
            /\ UNCHANGED model_warmed_up
       ELSE /\ pc' = [pc EXCEPT ![i] = "warmup_release"]
            /\ model_warmed_up' = TRUE
            /\ UNCHANGED <<loc, last>>
    /\ UNCHANGED <<_model, loads, store, cache, insOrder, useOrder, calls>>

warmup_EncodeFail(i) ==
    /\ pc[i] = "warmup_encode"
    /\ Throw(i, "EmbedError")
    /\ UNCHANGED <<_model, loads, store, model_warmed_up, cache, insOrder, useOrder, calls>>

\* release_model(); force_gc(); return {"status": "success", ...}
warmup_Release(i) ==
    /\ pc[i] = "warmup_release"
    /\ release_model
    /\ Done(i, loc[i], 200, <<"success">>)
    /\ UNCHANGED <<loads, store, model_warmed_up, cache, insOrder, useOrder, last>>

\* Mutant: the except block answers without releasing.
warmup_Except_NoRelease(i) ==
    /\ pc[i] = "warmup_except"
    /\ Done(i, loc[i], 200, <<"error">>)
    /\ UNCHANGED <<_model, loads, store, model_warmed_up, cache, insOrder,
                   useOrder, calls, last>>

\* except Exception: release_model(); return {"status": "error", ...}
warmup_Except(i) ==
    /\ pc[i] = "warmup_except"
    /\ release_model
    /\ Done(i, loc[i], 200, <<"error">>)
    /\ UNCHANGED <<loads, store, model_warmed_up, cache, insOrder, useOrder, last>>

\* ------------------------------------------------------------------ /health

health(i) ==
    /\ Ready(i)
    /\ Done(i, [NoLoc EXCEPT !.kind = "health"], 200, <<"healthy">>)
    /\ UNCHANGED <<_model, loads, store, model_warmed_up, cache, insOrder, useOrder, calls, last>>

\* ----------------------------------------------------------- specifications

\* The steps of a search in which every collaborator answers.
SearchOk(i) ==
    \/ get_model_Check(i)
    \/ get_model_Load(i)
    \/ get_model_Return(i)
    \/ get_collection_Ok(i)
    \/ encode_Ok(i)
    \/ query_Ok(i)

\* The steps in which one fails, and the handler's except block.
SearchFail(i) ==
    \/ get_model_LoadFail(i)
    \/ get_client_Fail(i)
    \/ get_collection_Fail(i)
    \/ encode_Fail(i)
    \/ query_Fail(i)

WarmupStep(i) ==
    \/ warmup_Already(i)
    \/ warmup_Begin(i)
    \/ warmup_Encode(i)
    \/ warmup_EncodeFail(i)
    \/ warmup_Release(i)
    \/ warmup_Except(i)

\* The requests of Spec: the empty query and a job URL, three results each.
Queries == {"", "http://jd"}
TopKs == {3}

\* Spec: the service as it runs, one handler at a time, any collaborator failing.
Next ==
    \/ recommend_Text(1, Queries, TopKs, BOOLEAN)
    \/ recommend_Resolved(1, Queries, TopKs, BOOLEAN)
    \/ recommend_Fallback(1, Queries, TopKs, BOOLEAN)
    \/ SearchOk(1)
    \/ SearchFail(1)
    \/ recommend_Except(1)
    \/ WarmupStep(1)
    \/ health(1)

Spec == Init /\ [][Next]_vars

\* The requests of CacheSpec: six keys for a cache of five.
CacheQueries == {"java", "https://jd"}
CacheTopKs == {1, 3}

\* CacheSpec: /recommend requests alone, in time, every collaborator answering.
CacheNext ==
    \/ recommend_Text(1, CacheQueries, CacheTopKs, {FALSE})
    \/ recommend_Resolved(1, CacheQueries, CacheTopKs, {FALSE})
    \/ recommend_Fallback(1, CacheQueries, CacheTopKs, {FALSE})
    \/ SearchOk(1)

CacheSpec == Init /\ [][CacheNext]_vars

\* The requests of NormSpec: two texts (the empty one and a URL whose scheme is
\* in capitals, which is not the prefix "http") and a job URL.
NormQueries == {"", "HTTP://jd", "http://jd"}

\* NormSpec: /recommend requests of every kind of query, in time or late, every
\* collaborator of the search answering.
NormNext ==
    \/ recommend_Text(1, NormQueries, TopKs, BOOLEAN)
    \/ recommend_Resolved(1, NormQueries, TopKs, BOOLEAN)
    \/ recommend_Fallback(1, NormQueries, TopKs, BOOLEAN)
    \/ SearchOk(1)
    \/ recommend_Except(1)

NormSpec == Init /\ [][NormNext]_vars

\* The requests of RankSpec: a text and the fallback text (equally far from two
\* items), for fewer results than the catalog holds and for more.
RankQueries == {"sql", "https://jd"}
RankTopKs == {3, 5}

\* RankSpec: /recommend requests in time, every collaborator answering.
RankNext ==
    \/ recommend_Text(1, RankQueries, RankTopKs, {FALSE})
    \/ recommend_Fallback(1, RankQueries, RankTopKs, {FALSE})
    \/ SearchOk(1)

RankSpec == Init /\ [][RankNext]_vars

\* The requests of ConcSpec: one query, so that the contexts meet in get_model.
ConcQueries == {"java"}

\* ConcSpec: the parallel invocation contexts of the design, /recommend and
\* /warmup, switching at every step.
ConcNext ==
    \E i \in Ctx :
        \/ recommend_Text(i, ConcQueries, TopKs, {FALSE})
        \/ SearchOk(i)
        \/ recommend_Except(i)
        \/ WarmupStep(i)

ConcSpec == Init /\ [][ConcNext]_vars

\* ------------------------------------------------------------------ claims

\* The get_model and release_model calls that returned or raised, oldest first.
NCalls == Len(calls)

\* C1: whenever a search call has returned or raised, on the success path and
\* on every failure path, the embedder has been released: the manager is Unloaded.
C1_SearchReleases ==
    \A i \in Ctx :
        (pc[i] \in {"except", "done"} /\ loc[i].searched) => _model = None

\* C2: acquire is idempotent: a get_model call that finds the model loaded
\* returns that instance and constructs nothing, so acquires that follow one
\* another with no release between them share one load and one handle.
C2_AcquireIdempotent ==
    /\ \A i \in Ctx : pc[i] = "load_model" => loc[i].was = None
    /\ \A n \in 1..NCalls :
          (calls[n].op = "acquire" /\ calls[n].was # None)
              => (calls[n].post = calls[n].pre /\ calls[n].now = calls[n].was)
    /\ \A n \in 1..(NCalls - 1) :
          (calls[n].op = "acquire" /\ calls[n + 1].op = "acquire")
              => (calls[n + 1].post = calls[n].post /\ calls[n + 1].now = calls[n].now)

\* C2 witness: two acquires in a row, the second finding the model loaded.
C2_Witness ==
    /\ NCalls >= 2
    /\ calls[NCalls - 1].op = "acquire"
    /\ calls[NCalls].op = "acquire"
    /\ calls[NCalls].was # None

\* The last three manager calls are acquire, release, acquire.
AcquireReleaseAcquire ==
    /\ NCalls = 3
    /\ calls[1].op = "acquire"
    /\ calls[2].op = "release"
    /\ calls[3].op = "acquire"

C4_ReleaseIdempotent ==
    [][\A i \in Ctx :
          (pc[i] \in {"warmup_release", "warmup_except"} /\ pc'[i] # pc[i]
              /\ _model = None)
          => (_model' = None /\ loads' = loads /\ pc'[i] = "done"
              /\ loc'[i].err = loc[i].err /\ loc'[i].status = 200)]_vars

\* C4 witness: two releases with no acquire succeeding between them, the
\* second made while Unloaded, and the handler has answered.
C4_Witness ==
    /\ NCalls = 3
    /\ calls[1].op = "release"
    /\ calls[2].op = "acquire_failed"
    /\ calls[3].op = "release"
    /\ calls[3].was = None
    /\ _model = None
    /\ pc[1] = "done"

\* The next acquire after call n, releases skipped, is call m.
NextAcquire(n, m) ==
    /\ n < m
    /\ calls[m].op # "release"
    /\ \A x \in (n + 1)..(m - 1) : calls[x].op = "release"

\* C5: a load that fails inside get_model raises LoadError, stores no handle
\* (the manager stays Unloaded), and the next acquire attempts the load again.
C5_LoadFailure ==
    /\ \A n \in 1..NCalls :
          calls[n].op = "acquire_failed"
              => (calls[n].now = None /\ calls[n].post = calls[n].pre)
    /\ \A i \in Ctx :
          (pc[i] \in {"except", "warmup_except"} /\ loc[i].err = "LoadError")
              => (_model = None /\ loc[i].model = None)
    /\ \A n \in 1..NCalls, m \in 1..NCalls :
          (calls[n].op = "acquire_failed" /\ NextAcquire(n, m))
              => /\ calls[m].was = None
                 /\ calls[m].op = "acquire"
                        => (calls[m].post = calls[m].pre + 1 /\ calls[m].now # None)

\* C5 witness: a failed load, then an acquire that loaded.
C5_Witness ==
    /\ NCalls >= 2
    /\ calls[NCalls - 1].op = "acquire_failed"
    /\ calls[NCalls].op = "acquire"
    /\ _model # None

\* Context i holds a handle from get_model and has not finished using it.
InUse(i) == pc[i] \in {"get_collection", "encode", "warmup_encode"}

\* C6: acquires that run at the same time from Unloaded are serialized: the
\* model is loaded exactly once and every caller receives the same handle.
C6_LoadSerialized ==
    \A i \in Ctx, j \in Ctx :
        (i # j /\ InUse(i) /\ InUse(j) /\ loc[i].was = None /\ loc[j].was = None
            /\ loc[i].pre = loc[j].pre)
        => (loads = loc[i].pre + 1 /\ loc[i].model = loc[j].model)

\* C7: no release unloads the embedder while an invocation is between its
\* acquire and the end of its use of the handle.
C7_NoReleaseUnderUser ==
    \A i \in Ctx : InUse(i) => _model # None

\* The call of context i repeats the key of the cached_search call before it,
\* and that call returned a result.
Repeats(i) ==
    /\ loc[i].kind = "recommend"
    /\ loc[i].called
    /\ loc[i].prev.ok
    /\ loc[i].prev.key = Key(loc[i])

\* C8: of two consecutive cached_search calls with the same (query_text, top_k),
\* the first returning a result, the second is a hit: chroma_search is not
\* invoked, the value equals the first call's, and the embedder is left as it was.
C8_CacheIdempotent ==
    \A i \in Ctx :
        Repeats(i) =>
            /\ pc[i] = "done"
            /\ loc[i].hit
            /\ ~loc[i].searched
            /\ loc[i].status = 200
            /\ loc[i].body = Format(loc[i].prev.body)
            /\ _model = loc[i].m0

\* C8 witness: a repeated call has answered, the first having computed.
C8_Witness ==
    /\ Repeats(1)
    /\ pc[1] = "done"
    /\ loc[1].body # <<>>

\* C9: the cache holds at most maxsize entries and one entry per key.
C9_CacheBounded ==
    /\ Len(cache) <= maxsize
    /\ \A m \in 1..Len(cache), n \in 1..Len(cache) :
          cache[m].key = cache[n].key => m = n

\* C9 witness: a store into a full cache has evicted, and two resident keys
\* share their query text.
C9_Witness ==
    /\ pc[1] = "done"
    /\ loc[1].ev.keys # {}
    /\ Len(cache) = maxsize
    /\ \E m \in 1..Len(cache), n \in 1..Len(cache) :
          m # n /\ cache[m].key[1] = cache[n].key[1]

\* C10 as stated: a store into a full cache evicts exactly the least recently
\* inserted resident entry, whatever hits there were since.
C10_Original ==
    \A i \in Ctx :
        (pc[i] = "done" /\ loc[i].ev.keys # {}) => loc[i].ev.keys = {loc[i].ev.ins}

\* C10 as amended: a store into a full cache evicts exactly the least recently
\* used resident entry, a hit counting as a use; the evicted key is then a
\* miss and every other key that was resident still is.
C10_EvictsLeastRecentlyUsed ==
    \A i \in Ctx :
        (pc[i] = "done" /\ loc[i].ev.keys # {}) =>
            /\ loc[i].ev.keys = {loc[i].ev.lru}
            /\ loc[i].ev.lru \notin Keys(cache)
            /\ (loc[i].ev.before \ loc[i].ev.keys) \subseteq Keys(cache)
            /\ Key(loc[i]) \in Keys(cache)

\* C10 witness: an eviction after hits: the least recently used key was not
\* the least recently inserted one.
C10_Witness ==
    /\ pc[1] = "done"
    /\ loc[1].ev.keys # {}
    /\ loc[1].ev.lru # loc[1].ev.ins

\* C11: a query that does not begin with "http" reaches the search as it was
\* posted, and get_query_from_url is not called for it.
C11_TextUnchanged ==
    \A i \in Ctx :
        (loc[i].kind = "recommend" /\ ~StartsWithHttp(loc[i].request))
            => (loc[i].query = loc[i].request /\ loc[i].resolver = "none")

\* C11 witness: a non-empty text, one that names a URL in capitals, was searched
\* for as posted and answered.
C11_Witness ==
    /\ pc[1] = "done"
    /\ loc[1].kind = "recommend"
    /\ loc[1].request = "HTTP://jd"
    /\ loc[1].searched
    /\ loc[1].status = 200
    /\ last.key = <<"HTTP://jd", loc[1].top_k>>

\* The resolver failed for the request of context i.
ResolverFailed(i) == loc[i].kind = "recommend" /\ loc[i].resolver = "failed"

\* C12 as stated: when the resolver fails for a URL, get_query_from_url raises
\* nothing and returns the fallback text, and the request goes on to the search
\* with that text as the query.
C12_Original ==
    \A i \in Ctx :
        ResolverFailed(i) =>
            /\ loc[i].err # "ResolveError"
            /\ loc[i].query = Fallback
            /\ loc[i].called

\* C12 as amended: when the resolver fails for a URL, get_query_from_url raises
\* nothing and returns the fallback text, which becomes the query; the request
\* goes on to the search with it unless its time budget was used up meanwhile,
\* and then it ends at the time check without a search.
C12_FallbackOnResolverFailure ==
    \A i \in Ctx :
        ResolverFailed(i) =>
            /\ loc[i].err # "ResolveError"
            /\ loc[i].query = Fallback
            /\ StartsWithHttp(loc[i].request)
            /\ loc[i].called \/ loc[i].err = "HTTPException503"
            /\ loc[i].called = (loc[i].err # "HTTPException503")
            /\ loc[i].called => (loc[i].hit \/ loc[i].searched)
            /\ ~loc[i].called => (~loc[i].hit /\ ~loc[i].searched)
            /\ (loc[i].called /\ pc[i] = "done") =>
                  /\ loc[i].status = 200
                  /\ loc[i].body = Format(collection_query(Embed(Fallback), loc[i].top_k))

\* C12 witness: the resolver failed and the search for the fallback text was
\* computed and answered.
C12_Witness ==
    /\ ResolverFailed(1)
    /\ pc[1] = "done"
    /\ loc[1].searched
    /\ loc[1].status = 200
    /\ last = [key |-> <<Fallback, loc[1].top_k>>, ok |-> TRUE,
               body |-> collection_query(Embed(Fallback), loc[1].top_k)]

\* The catalog item a response entry was made from.
ItemOf(entry) == entry.name[2]

Min(a, b) == IF a < b THEN a ELSE b

\* C13: a search for k results answers at most k items (as many as the catalog
\* has when it has fewer, so at least one), in the order the collection
\* returned them, nearest first: no item is nearer to the query than one
\* before it; a request for three results gets between one and three.
C13_TopKOrdered ==
    \A i \in Ctx :
        (loc[i].kind = "recommend" /\ pc[i] = "done" /\ loc[i].status = 200) =>
            LET body == loc[i].body
                v == Embed(loc[i].query)
                stored == Ranked(v, Catalog, loc[i].top_k)
            IN /\ Len(body) <= loc[i].top_k
               /\ Len(body) = Min(loc[i].top_k, Cardinality(Catalog))
               /\ loc[i].top_k = 3 => Len(body) \in 1..3
               /\ Len(body) = Len(stored)
               /\ \A n \in 1..Len(body) : ItemOf(body[n]) = stored[n]
               /\ \A m \in 1..Len(body), n \in 1..Len(body) :
                     m < n => /\ Dist(v, ItemOf(body[m])) <= Dist(v, ItemOf(body[n]))
                              /\ ItemOf(body[m]) # ItemOf(body[n])
               /\ \A n \in 1..Len(body), c \in Catalog :
                     Dist(v, c) < Dist(v, ItemOf(body[n]))
                         => \E m \in 1..Len(body) : ItemOf(body[m]) = c

\* C13 witness: a computed search for five results answered the four items of
\* the catalog, two of them equally near.
C13_Witness ==
    /\ pc[1] = "done"
    /\ loc[1].kind = "recommend"
    /\ loc[1].searched
    /\ loc[1].status = 200
    /\ loc[1].top_k = 5
    /\ Len(loc[1].body) = 4
    /\ \E n \in 1..3 :
          Dist(Embed(loc[1].query), ItemOf(loc[1].body[n]))
              = Dist(Embed(loc[1].query), ItemOf(loc[1].body[n + 1]))

\* A step of the search of context i raised.
SearchFailed(i) == loc[i].kind = "recommend" /\ loc[i].cause # ""

\* C14 as stated: every failure inside the search (the load of the embedder,
\* the catalog store, the embedding) leaves the search at once, with no retry,
\* and reaches its caller as the error that was raised.
C14_Original ==
    \A i \in Ctx :
        SearchFailed(i) =>
            /\ pc[i] \in {"except", "done"}
            /\ loc[i].err = loc[i].cause

\* C14 as amended: every failure inside the search leaves the search at once,
\* with no retry and nothing swallowed; it reaches the caller as the error that
\* was raised, except a failure of client.get_collection, which reaches it as
\* a RuntimeError.
C14_ErrorsPropagate ==
    \A i \in Ctx :
        SearchFailed(i) =>
            /\ pc[i] \in {"except", "done"}
            /\ loc[i].err = (IF loc[i].at = "client.get_collection" THEN "RuntimeError"
                              ELSE loc[i].cause)
            /\ loc[i].at \in {"load_model", "get_client", "client.get_collection",
                               "encode", "query"}
            /\ loc[i].searched /\ ~loc[i].hit
            /\ pc[i] = "done" => (loc[i].status = 500 /\ loc[i].body = <<>>)
            /\ pc[i] = "except" => (loc[i].status = 0 /\ ~last.ok)

\* C14 witness: the collection could not be got; the caller of the search got a
\* RuntimeError and answered.
C14_Witness ==
    /\ SearchFailed(1)
    /\ loc[1].at = "client.get_collection"
    /\ loc[1].cause = "StoreError"
    /\ loc[1].err = "RuntimeError"
    /\ pc[1] = "done"

\* C15: GET /health answers 200 with the body {"status": "ok"} in every state
\* of the service.
C15_HealthOk ==
    \A i \in Ctx :
        (loc[i].kind = "health" /\ pc[i] = "done")
            => (loc[i].status = 200 /\ loc[i].body = <<"ok">>)

\* The request of context i posted the empty query.
EmptyQuery(i) == loc[i].kind = "recommend" /\ loc[i].request = ""

C17_BudgetExhausted503 ==
    \A i \in Ctx :
        (loc[i].kind = "recommend" /\ loc[i].err = "HTTPException503") =>
            /\ ~loc[i].called
            /\ ~loc[i].searched
            /\ pc[i] = "done" => loc[i].status = 503

\* Context i has answered a /warmup call with the given status text.
WarmupAnswered(i, text) ==
    loc[i].kind = "warmup" /\ pc[i] = "done" /\ loc[i].body = <<text>>

\* What holds of /warmup in every state: after a success or an error answer the
\* manager is Unloaded; the flag is set after a success and not after an
\* error; a call in progress up to its encode began with the flag not set.
WarmupReleased ==
    \A i \in Ctx :
        /\ WarmupAnswered(i, "success") =>
              (_model = None /\ model_warmed_up /\ loc[i].err = "")
        /\ WarmupAnswered(i, "error") =>
              (_model = None /\ ~model_warmed_up /\ loc[i].err # "")
        /\ WarmupAnswered(i, "already") => model_warmed_up
        /\ (loc[i].kind = "warmup"
               /\ pc[i] \in {"get_model", "load_model", "get_model_return",
                              "warmup_encode", "warmup_except"})
              => ~model_warmed_up

\* What holds of every step: the flag is set only by a successful encode of
\* /warmup and never reset; a /warmup call that finds it set answers "Model
\* already warmed up" at once and leaves the embedder alone.
WarmupOnce ==
    /\ model_warmed_up => model_warmed_up'
    /\ (~model_warmed_up /\ model_warmed_up')
          => \E i \in Ctx : /\ pc[i] = "warmup_encode"
                            /\ pc'[i] = "warmup_release"
                            /\ loc[i].model # None
    /\ \A i \in Ctx :
          (model_warmed_up /\ Ready(i) /\ loc'[i].kind = "warmup"
             /\ loc'[i] # loc[i])
            => /\ pc'[i] = "done"
               /\ loc'[i].body = <<"already">>
               /\ loc'[i].status = 200
               /\ _model' = _model
               /\ loads' = loads
               /\ calls' = calls

\* C18: after /warmup returns, on its success path and on its error path, the
\* embedder is released (the manager is Unloaded); the warmed-up flag is set
\* only on success; once it is set, every later /warmup call answers "Model
\* already warmed up" without acquiring the embedder.
C18_WarmupReleases == []WarmupReleased /\ [][WarmupOnce]_vars

\* C18 witness: /warmup found the model loaded by an earlier search, its encode
\* failed, and its except block released the model before the error answer.
C18_Witness ==
    /\ WarmupAnswered(1, "error")
    /\ loc[1].cause = "EmbedError"
    /\ NCalls >= 2
    /\ calls[NCalls - 1].op = "acquire"
    /\ calls[NCalls - 1].was # None
    /\ calls[NCalls].op = "release"
    /\ calls[NCalls].was # None
    /\ _model = None

\* The call of context i repeats the key of the cached_search call before it,
\* and that call raised.
RepeatsFailed(i) ==
    /\ loc[i].kind = "recommend"
    /\ loc[i].called
    /\ loc[i].prev # NoCall
    /\ ~loc[i].prev.ok
    /\ loc[i].prev.key = Key(loc[i])

\* C19: a failed search is not cached: when chroma_search raises on a miss, no
\* entry is stored for the key and the resident entries are as they were, so
\* the next cached_search call with that key runs chroma_search again and
\* answers what it computes, never a stored error or a partial list.
C19_FailureNotCached ==
    \A i \in Ctx :
        /\ (SearchFailed(i) /\ pc[i] = "except") =>
              /\ cache = loc[i].c0
              /\ Key(loc[i]) \notin Keys(cache)
              /\ last = [key |-> Key(loc[i]), ok |-> FALSE, body |-> <<>>]
        /\ RepeatsFailed(i) =>
              /\ loc[i].searched
              /\ ~loc[i].hit
              /\ (pc[i] = "done" /\ loc[i].status = 200) =>
                    /\ loc[i].body
                          = Format(collection_query(Embed(loc[i].query), loc[i].top_k))
                    /\ Len(loc[i].body) = Min(loc[i].top_k, Cardinality(Catalog))
                    /\ Key(loc[i]) \in Keys(cache)

\* C19 witness: a search failed, the same key was asked again, computed and
\* answered.
C19_Witness ==
    /\ RepeatsFailed(1)
    /\ pc[1] = "done"
    /\ loc[1].searched
    /\ loc[1].status = 200
    /\ loc[1].body # <<>>

====
